---------------------------- MODULE Spec2Model ----------------------------
(***************************************************************************)
(* Model of the command gitbranchfiles.selectBranchFiles of                *)
(* src/src/extension.ts (lines 159-611): folder and branch selection, the  *)
(* base-reference probe, the three tiers that produce committedFiles, the  *)
(* working-tree scan that produces modifiedFiles, and the merge, sort and  *)
(* formatting of the final list.                                           *)
(*                                                                         *)
(* Text is a sequence of one-character strings, so that the string tests   *)
(* of the code (includes, startsWith, endsWith, replace, trim, substring,  *)
(* split, localeCompare) are computed and not assumed.                     *)
(***************************************************************************)
EXTENDS Integers, Sequences, FiniteSets, TLC

VARIABLES
    pc,                 \* position of the handler
    selectedDirectory,  \* [path, isExternal] (ext.ts 214-261)
    hasGitRepo,         \* ext.ts 268
    repo,               \* the repository and working tree the commands run against
    branchItems,        \* labels offered by the branch quick pick (ext.ts 293)
    selectedBranch,     \* label picked in the branch quick pick (ext.ts 304)
    baseRef,            \* ext.ts 314
    branchName,         \* ext.ts 325
    folderPath,         \* ext.ts 333
    pathForGitCommands, \* ext.ts 333
    mergeBase,          \* ext.ts 428
    committedFiles,     \* ext.ts 345
    currentBranch,      \* ext.ts 484
    modifiedFiles,      \* ext.ts 480
    changedFiles,       \* ext.ts 534
    sortedFiles,        \* ext.ts 537
    formattedFiles,     \* ext.ts 551
    document,           \* what openTextDocument was given (ext.ts 569-586)
    delivered,          \* showTextDocument was called (ext.ts 589)
    messages,           \* showErrorMessage / showInformationMessage calls
    cmdLog              \* the git commands issued so far, in order

vars == <<pc, repo, selectedDirectory, hasGitRepo, branchItems, selectedBranch, baseRef,
          branchName, folderPath, pathForGitCommands, mergeBase,
          committedFiles, currentBranch, modifiedFiles, changedFiles, sortedFiles,
          formattedFiles, document, delivered, messages, cmdLog>>

-----------------------------------------------------------------------------
(* Characters *)

NL == "\n"
SP == " "

Lowers == <<"a","b","c","d","e","f","g","h","i","j","k","l","m",
            "n","o","p","q","r","s","t","u","v","w","x","y","z">>
Uppers == <<"A","B","C","D","E","F","G","H","I","J","K","L","M",
            "N","O","P","Q","R","S","T","U","V","W","X","Y","Z">>

PosIn(seq, c) ==
    IF \E i \in 1..Len(seq) : seq[i] = c
    THEN CHOOSE i \in 1..Len(seq) : seq[i] = c
    ELSE 0

IsUpper(c) == PosIn(Uppers, c) # 0
IsLower(c) == PosIn(Lowers, c) # 0

\* \w of a JavaScript regular expression, over the characters of the model
IsWordChar(c) == IsUpper(c) \/ IsLower(c)

\* white space as String.prototype.trim sees it, over the characters of the model
IsSpace(c) == c = SP \/ c = NL

\* The primary collation key of a character: what localeCompare compares
\* under { sensitivity: 'base' } (case is a tertiary difference and is
\* ignored; white space sorts before punctuation, punctuation before letters).
Punct == <<SP, NL, "-", ".", "/", ">">>
BaseKey(c) ==
    IF IsUpper(c) THEN Len(Punct) + PosIn(Uppers, c)
    ELSE IF IsLower(c) THEN Len(Punct) + PosIn(Lowers, c)
    ELSE PosIn(Punct, c)

-----------------------------------------------------------------------------
(* String operations of the code *)

StartsWith(s, p) == Len(p) <= Len(s) /\ SubSeq(s, 1, Len(p)) = p

EndsWith(s, p) == Len(p) <= Len(s) /\ SubSeq(s, Len(s) - Len(p) + 1, Len(s)) = p

\* 1-based position of the first occurrence of p in s, 0 when there is none
IndexOf(s, p) ==
    LET at(i) == SubSeq(s, i, i + Len(p) - 1) = p
        cand  == {i \in 1..(Len(s) - Len(p) + 1) : at(i)}
    IN  IF cand = {} THEN 0 ELSE CHOOSE i \in cand : \A j \in cand : i <= j

Includes(s, p) == IndexOf(s, p) # 0

\* String.prototype.replace with a string pattern: the first occurrence only
ReplaceFirst(s, p, r) ==
    LET i == IndexOf(s, p)
    IN  IF i = 0 THEN s
        ELSE SubSeq(s, 1, i - 1) \o r \o SubSeq(s, i + Len(p), Len(s))

\* String.prototype.substring(k)
Substring(s, k) == SubSeq(s, k + 1, Len(s))

RECURSIVE TrimStart(_)
TrimStart(s) ==
    IF s # <<>> /\ IsSpace(Head(s)) THEN TrimStart(Tail(s)) ELSE s

RECURSIVE TrimEnd(_)
TrimEnd(s) ==
    IF s # <<>> /\ IsSpace(s[Len(s)]) THEN TrimEnd(SubSeq(s, 1, Len(s) - 1)) ELSE s

Trim(s) == TrimEnd(TrimStart(s))

\* text.split('\n'): the lines of a text; a text ending in a newline yields
\* a last empty line, and the empty text yields one empty line
RECURSIVE SplitLines(_)
SplitLines(text) ==
    LET i == PosIn(text, NL)
    IN  IF i = 0 THEN <<text>>
        ELSE <<SubSeq(text, 1, i - 1)>> \o SplitLines(SubSeq(text, i + 1, Len(text)))

\* what a command prints for a list of lines: every line ends in a newline
RECURSIVE PrintLines(_)
PrintLines(lines) ==
    IF lines = <<>> THEN <<>>
    ELSE Head(lines) \o <<NL>> \o PrintLines(Tail(lines))

IsIn(seq, x) == \E i \in 1..Len(seq) : seq[i] = x

\* [...new Set(seq)]: the first occurrence of every element, in order
RECURSIVE Dedupe(_)
Dedupe(seq) ==
    IF seq = <<>> THEN <<>>
    ELSE LET front == Dedupe(SubSeq(seq, 1, Len(seq) - 1))
             last  == seq[Len(seq)]
         IN  IF IsIn(front, last) THEN front ELSE Append(front, last)

Range(seq) == {seq[i] : i \in 1..Len(seq)}

NotBlank(line) == Trim(line) # <<>>

\* the lexicographic order of two sequences of keys: -1, 0 or 1
LexCmp(ka, kb) ==
    LET n    == IF Len(ka) < Len(kb) THEN Len(ka) ELSE Len(kb)
        diff == {i \in 1..n : ka[i] # kb[i]}
        d    == CHOOSE i \in diff : \A j \in diff : i <= j
    IN  IF diff # {}
        THEN (IF ka[d] < kb[d] THEN -1 ELSE 1)
        ELSE IF Len(ka) < Len(kb) THEN -1
        ELSE IF Len(ka) > Len(kb) THEN 1
        ELSE 0

\* byte order, the order of sort(1) in the C locale
Ascii == <<NL, SP, "*", "-", ".", "/", ">", "?">> \o Uppers \o Lowers
ByteKey(c) == PosIn(Ascii, c)
ByteCompare(a, b) ==
    LexCmp([i \in 1..Len(a) |-> ByteKey(a[i])], [i \in 1..Len(b) |-> ByteKey(b[i])])

\* a.localeCompare(b, undefined, { sensitivity: 'base' })
LocaleCompareBase(a, b) ==
    LexCmp([i \in 1..Len(a) |-> BaseKey(a[i])], [i \in 1..Len(b) |-> BaseKey(b[i])])

-----------------------------------------------------------------------------
(* Literals of the code and of the repositories explored *)

sMain == <<"m","a","i","n">>
sMaster == <<"m","a","s","t","e","r">>
sDev == <<"d","e","v">>
sFeatureX == <<"f","e","a","t","u","r","e","/","x">>
sFeatureMain == <<"f","e","a","t","u","r","e","/","m","a","i","n">>
sRemotesOriginMain == <<"r","e","m","o","t","e","s","/","o","r","i","g","i","n","/","m","a","i","n">>
sRemotesOriginFeatureX == <<"r","e","m","o","t","e","s","/","o","r","i","g","i","n","/","f","e","a","t","u","r","e","/","x">>
sHEAD == <<"H","E","A","D">>
sRemotes == <<"r","e","m","o","t","e","s","/">>
sRefsHeads == <<"r","e","f","s","/","h","e","a","d","s","/">>
sRefsRemotes == <<"r","e","f","s","/","r","e","m","o","t","e","s","/">>
sSlash == <<"/">>
sDot == <<".">>
sAsterisk == <<"*">>
sEmpty == <<>>
sSrc == <<"s","r","c">>
sExt == <<".",".","/","e","x","t">>
sCommit == <<"c","a","f","e">>
pSrcA == <<"s","r","c","/","a",".","t","s">>
pSrcB == <<"s","r","c","/","B",".","t","s">>
pRootA == <<"a",".","t","s">>
pMake == <<"M","a","k","e","f","i","l","e">>
pSrcx == <<"s","r","c","x","/","c",".","t","s">>
pLibA == <<"l","i","b","/","a",".","t","s">>
stSrcA == <<" ","M"," ","s","r","c","/","a",".","t","s">>
stDocs == <<"?","?"," ","d","o","c","s","/">>
stMake == <<"M"," "," ","M","a","k","e","f","i","l","e">>
stSrcx == <<" ","M"," ","s","r","c","x","/","c",".","t","s">>
stSrcB == <<" ","M"," ","s","r","c","/","B",".","t","s">>
stLib == <<" ","M"," ","l","i","b">>

-----------------------------------------------------------------------------
(* The repositories explored.  A repository is fixed for one invocation:   *)
(* the commands read it and never change it.                               *)

\* local and remote-tracking branches, as git branch --all lists them
BranchSets ==
    { [locals  |-> <<sDev, sFeatureMain, sFeatureX, sMain>>,
       remotes |-> <<sRemotesOriginFeatureX, sRemotesOriginMain>>],
      [locals  |-> <<sDev, sMaster>>,
       remotes |-> <<sRemotesOriginMain>>],
      [locals  |-> <<sDev>>,
       remotes |-> <<>>] }

\* history: files of every commit reachable from the branch, newest first;
\* diff: files that differ between the merge base and the branch tip;
\* recent: the git log listing of the last commits of HEAD, a blank line
\* between commits
FileSets ==
    { [history |-> <<>>, diff |-> <<>>, recent |-> <<>>],
      [history |-> <<pSrcA, pRootA, pSrcA, pMake>>,
       diff    |-> <<pMake, pRootA, pSrcA>>,
       recent  |-> <<pSrcA, sEmpty, pRootA, pSrcA>>],
      [history |-> <<pSrcB, pSrcx, pSrcB>>,
       diff    |-> <<pSrcB, pSrcx>>,
       recent  |-> <<pSrcx, sEmpty, pSrcB>>] }

\* status: the lines of git status --porcelain; modified: the files that
\* git ls-files --modified --recurse-submodules lists (lib is a submodule)
Worktrees ==
    { [status |-> <<>>, modified |-> <<>>],
      [status |-> <<stSrcA, stDocs>>, modified |-> <<pSrcA>>],
      [status |-> <<stMake, stSrcB, stSrcx>>, modified |-> <<pSrcB, pSrcx>>],
      [status |-> <<stLib, stSrcA>>, modified |-> <<pLibA, pSrcA>>] }

NoRepository ==
    [isRepo |-> FALSE, locals |-> <<>>, remotes |-> <<>>, head |-> sHEAD,
     files |-> [history |-> <<>>, diff |-> <<>>, recent |-> <<>>],
     worktree |-> [status |-> <<>>, modified |-> <<>>]]

Repositories ==
    { [isRepo |-> TRUE, locals |-> b.locals, remotes |-> b.remotes, head |-> h,
       files |-> f, worktree |-> w] :
          b \in BranchSets, f \in FileSets, w \in Worktrees,
          h \in {sHEAD, sDev, sMain, sMaster, sFeatureX} }

\* the checked-out branch is a local branch, or HEAD is detached
WellFormed(r) == r.head = sHEAD \/ IsIn(r.locals, r.head)

-----------------------------------------------------------------------------
(* What the git commands of the code print, given the repository *)

Resolves(ref) ==
    \/ ref = sHEAD
    \/ ref = sCommit
    \/ IsIn(repo.locals, ref)
    \/ IsIn(repo.remotes, ref)
    \/ IsIn(repo.remotes, sRemotes \o ref)

\* a pathspec names a directory (or a file); the empty one names everything
PathspecMatch(path, spec) ==
    spec = sEmpty \/ path = sEmpty \/ path = spec \/ StartsWith(path, spec \o sSlash)

Restrict(paths, spec) == SelectSeq(paths, LAMBDA f : PathspecMatch(f, spec))

\* git branch --all
GitBranchAll ==
    LET mark(b) == (IF b = repo.head THEN <<"*", SP>> ELSE <<SP, SP>>) \o b
    IN  PrintLines([i \in 1..Len(repo.locals) |-> mark(repo.locals[i])]
                   \o [i \in 1..Len(repo.remotes) |-> <<SP, SP>> \o repo.remotes[i]])

\* git rev-parse --abbrev-ref HEAD
GitRevParseHead == PrintLines(<<repo.head>>)

\* git merge-base a b
GitMergeBase(a, b) == PrintLines(<<sCommit>>)

\* git diff --name-only --recurse-submodules from to [-- spec], and from...to
GitDiffNameOnly(spec) == PrintLines(Restrict(repo.files.diff, spec))

\* git log --name-only --format="" ref [-- spec]
GitLogNameOnly(spec) == PrintLines(Restrict(repo.files.history, spec))

\* git log --name-only --pretty=format: -n 20 [-- spec]
GitLogRecent(spec) == PrintLines(Restrict(repo.files.recent, spec))

\* git status --porcelain
GitStatusPorcelain == PrintLines(repo.worktree.status)

\* git ls-files --modified --recurse-submodules [spec]
GitLsFilesModified(spec) == PrintLines(Restrict(repo.worktree.modified, spec))

\* the lines a filter of a shell pipeline reads: the text without the
\* newline that ends it
InputLines(text) ==
    IF text = <<>> THEN <<>>
    ELSE LET ls == SplitLines(text)
         IN  IF ls[Len(ls)] = <<>> THEN SubSeq(ls, 1, Len(ls) - 1) ELSE ls

\* ... | sort
RECURSIVE ShellSort(_)
ShellSort(lines) ==
    IF lines = <<>> THEN <<>>
    ELSE LET front == ShellSort(SubSeq(lines, 1, Len(lines) - 1))
             x     == lines[Len(lines)]
             k     == Cardinality({i \in 1..Len(front) : ByteCompare(front[i], x) <= 0})
         IN  SubSeq(front, 1, k) \o <<x>> \o SubSeq(front, k + 1, Len(front))

\* ... | uniq: adjacent equal lines become one
RECURSIVE ShellUniq(_)
ShellUniq(lines) ==
    IF Len(lines) <= 1 THEN lines
    ELSE LET front == ShellUniq(SubSeq(lines, 1, Len(lines) - 1))
             x     == lines[Len(lines)]
         IN  IF front[Len(front)] = x THEN front ELSE Append(front, x)

SortUniq(text) == PrintLines(ShellUniq(ShellSort(InputLines(text))))

-----------------------------------------------------------------------------
(* The pure steps of the handler *)

\* ext.ts 325-330: "remotes/origin/main" becomes "origin/main"
CleanBranchName(label) ==
    IF Includes(label, sRemotes) THEN ReplaceFirst(label, sRemotes, sEmpty) ELSE label

\* ext.ts 334-342
FolderPathOf(dir) ==
    IF dir.isExternal THEN sEmpty
    ELSE IF dir.path = sDot THEN sEmpty ELSE dir.path

\* IsSameBranch without the test for a remote prefix
IsSameBranchExact(name, base) == name = base

\* ext.ts 348 and 445
IsSameBranch(name, base) == name = base \/ EndsWith(name, sSlash \o base)

\* ext.ts 487-488: s.replace(/^(refs\/heads\/|refs\/remotes\/\w+\/)/, '')
NormalizeRef(s) ==
    IF StartsWith(s, sRefsHeads) THEN Substring(s, Len(sRefsHeads))
    ELSE IF StartsWith(s, sRefsRemotes)
    THEN LET rest == Substring(s, Len(sRefsRemotes))
             i    == PosIn(rest, "/")
         IN  IF i > 1 /\ \A j \in 1..(i - 1) : IsWordChar(rest[j])
             THEN Substring(rest, i)
             ELSE s
    ELSE s

\* ext.ts 491
IsOnSelectedBranch(current, name) == NormalizeRef(current) = NormalizeRef(name)

\* ext.ts 494
IsRemoteBranch(name) == Includes(name, sSlash) /\ ~StartsWith(name, sRefsHeads)

\* ext.ts 293-301: the labels of the branch quick pick
BranchLabels(text) ==
    LET lines == SelectSeq(SplitLines(text), NotBlank)
    IN  [i \in 1..Len(lines) |-> Trim(ReplaceFirst(lines[i], sAsterisk, sEmpty))]

\* ext.ts 462-464 and 501-503
StatusFiles(text) ==
    LET lines == SelectSeq(SplitLines(text), NotBlank)
    IN  [i \in 1..Len(lines) |-> Trim(Substring(lines[i], 3))]

\* ext.ts 466-470 and 506-510
FilterByFolder(files, folder) ==
    IF folder # sEmpty
    THEN SelectSeq(files, LAMBDA f : StartsWith(f, folder))
    ELSE files

\* ext.ts 539-540
LooksLikeDir(a) == EndsWith(a, sSlash) \/ ~Includes(a, sDot)

\* CompareFiles without the directories-first key
CompareFilesAlphabetical(a, b) == LocaleCompareBase(a, b)

\* ext.ts 537-548: the comparator of the sort
CompareFiles(a, b) ==
    IF LooksLikeDir(a) /\ ~LooksLikeDir(b) THEN -1
    ELSE IF ~LooksLikeDir(a) /\ LooksLikeDir(b) THEN 1
    ELSE LocaleCompareBase(a, b)

\* ext.ts 537: [...changedFiles].sort(comparator); the sort is stable
RECURSIVE SortFiles(_)
SortFiles(files) ==
    IF files = <<>> THEN <<>>
    ELSE LET front == SortFiles(SubSeq(files, 1, Len(files) - 1))
             x     == files[Len(files)]
             k     == Cardinality({i \in 1..Len(front) : CompareFiles(front[i], x) <= 0})
         IN  SubSeq(front, 1, k) \o <<x>> \o SubSeq(front, k + 1, Len(front))

\* AllChangedFiles without the Set
AllChangedFilesNoSet(committed, modified) == committed \o modified

\* ext.ts 532
AllChangedFiles(committed, modified) == Dedupe(committed \o modified)

\* ChangedFiles that keeps the blank entries
ChangedFilesUnfiltered(all) == all

\* ext.ts 534
ChangedFiles(all) == SelectSeq(all, NotBlank)

\* FormatFile that marks every entry
FormatFileAlwaysMarked(file, modified) == <<"*", SP>> \o file

\* ext.ts 551-556
FormatFile(file, modified) ==
    IF IsIn(modified, file) THEN <<"*", SP>> \o file ELSE <<SP, SP>> \o file

FormattedFiles(sorted, modified) ==
    [i \in 1..Len(sorted) |-> FormatFile(sorted[i], modified)]

-----------------------------------------------------------------------------
(* The handler, one action per step *)

\* a git command can succeed only in a repository and on references that
\* resolve; any command can fail
Outcomes(possible) == IF repo.isRepo /\ possible THEN {TRUE, FALSE} ELSE {FALSE}

\* one issued command: the tier it belongs to, its reference and pathspec
\* arguments, whether execSync returned (ok) and whether git itself
\* succeeded (git; they differ only for a pipeline)
Issued(tier, cmd, refs, path, ok, git) ==
    [tier |-> tier, cmd |-> cmd, refs |-> refs, path |-> path, ok |-> ok, git |-> git]

Message(kind, text) == [kind |-> kind, text |-> text]

NoDocument == [branch |-> sEmpty, total |-> 0, modified |-> 0, lines |-> <<>>]

inputVars  == <<selectedDirectory, hasGitRepo, branchItems, selectedBranch,
                baseRef, branchName, folderPath, pathForGitCommands>>
tierVars   == <<mergeBase, committedFiles>>
scanVars   == <<currentBranch, modifiedFiles>>
resultVars == <<changedFiles, sortedFiles, formattedFiles, document, delivered>>

Init ==
    /\ pc = "start"
    /\ repo \in {r \in Repositories : WellFormed(r)} \cup {NoRepository}
    /\ selectedDirectory = [path |-> sDot, isExternal |-> FALSE]
    /\ hasGitRepo = FALSE
    /\ branchItems = <<>>
    /\ selectedBranch = sEmpty
    /\ baseRef = sMain
    /\ branchName = sEmpty
    /\ folderPath = sEmpty
    /\ pathForGitCommands = sEmpty
    /\ mergeBase = sEmpty
    /\ committedFiles = <<>>
    /\ currentBranch = sEmpty
    /\ modifiedFiles = <<>>
    /\ changedFiles = <<>>
    /\ sortedFiles = <<>>
    /\ formattedFiles = <<>>
    /\ document = NoDocument
    /\ delivered = FALSE
    /\ messages = <<>>
    /\ cmdLog = <<>>

\* ext.ts 162-168
CheckWorkspace ==
    /\ pc = "start"
    /\ \E workspaceFolders \in BOOLEAN :
          IF ~workspaceFolders
          THEN /\ messages' = Append(messages, Message("error", "No workspace folder is open."))
               /\ pc' = "done"
          ELSE /\ pc' = "selectDirectory"
               /\ UNCHANGED messages
    /\ UNCHANGED <<repo, inputVars, tierVars, scanVars, resultVars, cmdLog>>

\* what the folder quick pick and the folder dialog can return
DirectoryChoices(listed) ==
    {"cancel", "root", "browse-cancel", "browse-root", "browse-src", "browse-external"}
        \cup (IF listed THEN {"src"} ELSE {})

\* ext.ts 213-261
SelectedDirectoryOf(choice) ==
    IF choice \in {"src", "browse-src"} THEN [path |-> sSrc, isExternal |-> FALSE]
    ELSE IF choice = "browse-external" THEN [path |-> sExt, isExternal |-> TRUE]
    ELSE [path |-> sDot, isExternal |-> FALSE]

\* ext.ts 170-261
SelectDirectory ==
    /\ pc = "selectDirectory"
    /\ \E ok \in Outcomes(TRUE) : \E choice \in DirectoryChoices(ok) :
          /\ cmdLog' = Append(cmdLog, Issued("setup", "ls-files", <<>>, sEmpty, ok, ok))
          /\ IF choice = "cancel"
             THEN /\ pc' = "done"
                  /\ UNCHANGED selectedDirectory
             ELSE /\ pc' = "checkRepository"
                  /\ selectedDirectory' = SelectedDirectoryOf(choice)
    /\ UNCHANGED <<repo, hasGitRepo, branchItems, selectedBranch, baseRef, branchName,
                   folderPath, pathForGitCommands, tierVars, scanVars, resultVars,
                   messages>>

\* ext.ts 263-280
CheckRepository ==
    /\ pc = "checkRepository"
    /\ \E ok \in Outcomes(TRUE) :
          /\ cmdLog' = Append(cmdLog,
                 Issued("setup", "rev-parse --is-inside-work-tree", <<>>, sEmpty, ok, ok))
          /\ hasGitRepo' = ok
          /\ IF ~ok /\ selectedDirectory.isExternal
             THEN /\ messages' = Append(messages, Message("error",
                         "The selected folder doesn't appear to be a Git repository."))
                  /\ pc' = "done"
             ELSE /\ pc' = "listBranches"
                  /\ UNCHANGED messages
    /\ UNCHANGED <<repo, selectedDirectory, branchItems, selectedBranch, baseRef,
                   branchName, folderPath, pathForGitCommands, tierVars, scanVars,
                   resultVars>>

\* ListBranches that returns without a message when the listing fails
ListBranchesSilent ==
    /\ pc = "listBranches"
    /\ \E ok \in Outcomes(TRUE) :
          /\ cmdLog' = Append(cmdLog, Issued("setup", "branch --all", <<>>, sEmpty, ok, ok))
          /\ IF ok
             THEN /\ branchItems' = BranchLabels(GitBranchAll)
                  /\ pc' = "selectBranch"
                  /\ UNCHANGED messages
             ELSE /\ pc' = "done"
                  /\ UNCHANGED <<messages, branchItems>>
    /\ UNCHANGED <<repo, selectedDirectory, hasGitRepo, selectedBranch, baseRef,
                   branchName, folderPath, pathForGitCommands, tierVars, scanVars,
                   resultVars>>

\* ext.ts 282-301
ListBranches ==
    /\ pc = "listBranches"
    /\ \E ok \in Outcomes(TRUE) :
          /\ cmdLog' = Append(cmdLog, Issued("setup", "branch --all", <<>>, sEmpty, ok, ok))
          /\ IF ok
             THEN /\ branchItems' = BranchLabels(GitBranchAll)
                  /\ pc' = "selectBranch"
                  /\ UNCHANGED messages
             ELSE /\ messages' = Append(messages, Message("error", "Failed to get Git branches"))
                  /\ pc' = "done"
                  /\ UNCHANGED branchItems
    /\ UNCHANGED <<repo, selectedDirectory, hasGitRepo, selectedBranch, baseRef,
                   branchName, folderPath, pathForGitCommands, tierVars, scanVars,
                   resultVars>>

\* ext.ts 303-310
SelectBranch ==
    /\ pc = "selectBranch"
    /\ \/ /\ pc' = "done"
          /\ UNCHANGED selectedBranch
       \/ \E i \in 1..Len(branchItems) :
             /\ selectedBranch' = branchItems[i]
             /\ pc' = "resolveBase"
    /\ UNCHANGED <<repo, selectedDirectory, hasGitRepo, branchItems, baseRef, branchName,
                   folderPath, pathForGitCommands, tierVars, scanVars, resultVars,
                   messages, cmdLog>>

\* ResolveBase that keeps 'main' whatever the verification says
ResolveBaseAlwaysMain ==
    /\ pc = "resolveBase"
    /\ \E ok \in Outcomes(IsIn(repo.locals, sMain)) :
          /\ cmdLog' = Append(cmdLog,
                 Issued("setup", "show-ref --verify", <<sRefsHeads \o sMain>>, sEmpty, ok, ok))
          /\ baseRef' = sMain
    /\ branchName' = CleanBranchName(selectedBranch)
    /\ folderPath' = FolderPathOf(selectedDirectory)
    /\ pathForGitCommands' = FolderPathOf(selectedDirectory)
    /\ pc' = "primary"
    /\ UNCHANGED <<repo, selectedDirectory, hasGitRepo, branchItems, selectedBranch,
                   tierVars, scanVars, resultVars, messages>>

\* ext.ts 312-342
ResolveBase ==
    /\ pc = "resolveBase"
    /\ \E ok \in Outcomes(IsIn(repo.locals, sMain)) :
          /\ cmdLog' = Append(cmdLog,
                 Issued("setup", "show-ref --verify", <<sRefsHeads \o sMain>>, sEmpty, ok, ok))
          /\ baseRef' = IF ok THEN sMain ELSE sMaster
    /\ branchName' = CleanBranchName(selectedBranch)
    /\ folderPath' = FolderPathOf(selectedDirectory)
    /\ pathForGitCommands' = FolderPathOf(selectedDirectory)
    /\ pc' = "primary"
    /\ UNCHANGED <<repo, selectedDirectory, hasGitRepo, branchItems, selectedBranch,
                   tierVars, scanVars, resultVars, messages>>

\* how the pipeline "git log ... | sort | uniq" can end: git log succeeds;
\* git log fails and the shell still reports the status of uniq, which is
\* success with nothing printed; or execSync throws (the shell or the last
\* stage of the pipeline fails)
PipelineOutcomes(possible) ==
    {"gitfail", "throw"} \cup (IF repo.isRepo /\ possible THEN {"ok"} ELSE {})

\* ext.ts 350-365: primary tier, same branch: the files of the whole history
PrimaryHistory ==
    /\ pc = "primary"
    /\ IsSameBranch(branchName, baseRef)
    /\ \E run \in PipelineOutcomes(Resolves(branchName)) :
          /\ cmdLog' = Append(cmdLog,
                 Issued("primary", "log | sort | uniq", <<branchName>>, pathForGitCommands,
                        run # "throw", run = "ok"))
          /\ IF run = "throw"
             THEN /\ pc' = "secondary"
                  /\ UNCHANGED committedFiles
             ELSE /\ committedFiles' =
                        SelectSeq(SplitLines(SortUniq(
                            IF run = "ok" THEN GitLogNameOnly(pathForGitCommands) ELSE sEmpty)),
                            NotBlank)
                  /\ pc' = "scanHead"
    /\ UNCHANGED <<repo, inputVars, mergeBase, scanVars, resultVars, messages>>

\* ext.ts 426-428: primary tier, differing branches: the merge base
PrimaryMergeBase ==
    /\ pc = "primary"
    /\ ~IsSameBranch(branchName, baseRef)
    /\ \E ok \in Outcomes(Resolves(baseRef) /\ Resolves(branchName)) :
          /\ cmdLog' = Append(cmdLog,
                 Issued("primary", "merge-base", <<baseRef, branchName>>, sEmpty, ok, ok))
          /\ IF ok
             THEN /\ mergeBase' = Trim(GitMergeBase(baseRef, branchName))
                  /\ pc' = "primaryDiff"
             ELSE /\ pc' = "secondary"
                  /\ UNCHANGED mergeBase
    /\ UNCHANGED <<repo, inputVars, committedFiles, scanVars, resultVars, messages>>

\* PrimaryDiff with the secondary tier entered after a success as well
PrimaryDiffThenSecondary ==
    /\ pc = "primaryDiff"
    /\ \E ok \in Outcomes(Resolves(mergeBase) /\ Resolves(branchName)) :
          /\ cmdLog' = Append(cmdLog,
                 Issued("primary", "diff", <<mergeBase, branchName>>, pathForGitCommands, ok, ok))
          /\ committedFiles' =
                IF ok THEN SplitLines(GitDiffNameOnly(pathForGitCommands)) ELSE committedFiles
    /\ pc' = "secondary"
    /\ UNCHANGED <<repo, inputVars, mergeBase, scanVars, resultVars, messages>>

\* ext.ts 430-437: primary tier, differing branches: the diff from the merge base
PrimaryDiff ==
    /\ pc = "primaryDiff"
    /\ \E ok \in Outcomes(Resolves(mergeBase) /\ Resolves(branchName)) :
          /\ cmdLog' = Append(cmdLog,
                 Issued("primary", "diff", <<mergeBase, branchName>>, pathForGitCommands, ok, ok))
          /\ IF ok
             THEN /\ committedFiles' = SplitLines(GitDiffNameOnly(pathForGitCommands))
                  /\ pc' = "scanHead"
             ELSE /\ pc' = "secondary"
                  /\ UNCHANGED committedFiles
    /\ UNCHANGED <<repo, inputVars, mergeBase, scanVars, resultVars, messages>>

\* ext.ts 438-448: secondary tier, same branch: the last 20 commits of HEAD
SecondaryRecent ==
    /\ pc = "secondary"
    /\ IsSameBranch(branchName, baseRef)
    /\ \E ok \in Outcomes(TRUE) :
          /\ cmdLog' = Append(cmdLog,
                 Issued("secondary", "log -n 20", <<>>, pathForGitCommands, ok, ok))
          /\ IF ok
             THEN /\ committedFiles' = SplitLines(GitLogRecent(pathForGitCommands))
                  /\ pc' = "scanHead"
             ELSE /\ pc' = "tertiary"
                  /\ UNCHANGED committedFiles
    /\ UNCHANGED <<repo, inputVars, mergeBase, scanVars, resultVars, messages>>

\* SecondaryThreeDot with the tertiary tier entered after a success as well
SecondaryThreeDotThenTertiary ==
    /\ pc = "secondary"
    /\ ~IsSameBranch(branchName, baseRef)
    /\ \E ok \in Outcomes(Resolves(baseRef) /\ Resolves(branchName)) :
          /\ cmdLog' = Append(cmdLog,
                 Issued("secondary", "diff ...", <<baseRef, branchName>>, pathForGitCommands,
                        ok, ok))
          /\ committedFiles' =
                IF ok THEN SplitLines(GitDiffNameOnly(pathForGitCommands)) ELSE committedFiles
    /\ pc' = "tertiary"
    /\ UNCHANGED <<repo, inputVars, mergeBase, scanVars, resultVars, messages>>

\* ext.ts 438-443, 449-456: secondary tier, differing branches: base...branch
SecondaryThreeDot ==
    /\ pc = "secondary"
    /\ ~IsSameBranch(branchName, baseRef)
    /\ \E ok \in Outcomes(Resolves(baseRef) /\ Resolves(branchName)) :
          /\ cmdLog' = Append(cmdLog,
                 Issued("secondary", "diff ...", <<baseRef, branchName>>, pathForGitCommands,
                        ok, ok))
          /\ IF ok
             THEN /\ committedFiles' = SplitLines(GitDiffNameOnly(pathForGitCommands))
                  /\ pc' = "scanHead"
             ELSE /\ pc' = "tertiary"
                  /\ UNCHANGED committedFiles
    /\ UNCHANGED <<repo, inputVars, mergeBase, scanVars, resultVars, messages>>

\* TertiaryStatus with the failure of the status command left uncaught
TertiaryStatusRaises ==
    /\ pc = "tertiary"
    /\ \E ok \in Outcomes(TRUE) :
          /\ cmdLog' = Append(cmdLog,
                 Issued("tertiary", "status --porcelain", <<>>, sEmpty, ok, ok))
          /\ IF ok
             THEN /\ committedFiles' = FilterByFolder(StatusFiles(GitStatusPorcelain), folderPath)
                  /\ pc' = "scanHead"
                  /\ UNCHANGED messages
             ELSE /\ messages' = Append(messages, Message("error", "Failed to get changed files"))
                  /\ pc' = "done"
                  /\ UNCHANGED committedFiles
    /\ UNCHANGED <<repo, inputVars, mergeBase, scanVars, resultVars>>

\* ext.ts 456-476: tertiary tier: the working-tree status
TertiaryStatus ==
    /\ pc = "tertiary"
    /\ \E ok \in Outcomes(TRUE) :
          /\ cmdLog' = Append(cmdLog,
                 Issued("tertiary", "status --porcelain", <<>>, sEmpty, ok, ok))
          /\ committedFiles' =
                IF ok THEN FilterByFolder(StatusFiles(GitStatusPorcelain), folderPath)
                ELSE committedFiles
    /\ pc' = "scanHead"
    /\ UNCHANGED <<repo, inputVars, mergeBase, scanVars, resultVars, messages>>

\* ScanHead without the test of the checked-out branch
ScanHeadAlwaysScans ==
    /\ pc = "scanHead"
    /\ \E ok \in Outcomes(TRUE) :
          /\ cmdLog' = Append(cmdLog,
                 Issued("scan", "rev-parse --abbrev-ref HEAD", <<>>, sEmpty, ok, ok))
          /\ IF ok
             THEN /\ currentBranch' = Trim(GitRevParseHead)
                  /\ pc' = "scanStatus"
             ELSE /\ pc' = "merge"
                  /\ UNCHANGED currentBranch
    /\ UNCHANGED <<repo, inputVars, tierVars, modifiedFiles, resultVars, messages>>

\* ext.ts 479-496, 523-529: the checked-out branch and whether the scan runs
ScanHead ==
    /\ pc = "scanHead"
    /\ \E ok \in Outcomes(TRUE) :
          /\ cmdLog' = Append(cmdLog,
                 Issued("scan", "rev-parse --abbrev-ref HEAD", <<>>, sEmpty, ok, ok))
          /\ IF ok
             THEN /\ currentBranch' = Trim(GitRevParseHead)
                  /\ pc' = IF IsOnSelectedBranch(currentBranch', branchName)
                              /\ ~IsRemoteBranch(branchName)
                           THEN "scanStatus" ELSE "merge"
             ELSE /\ pc' = "merge"
                  /\ UNCHANGED currentBranch
    /\ UNCHANGED <<repo, inputVars, tierVars, modifiedFiles, resultVars, messages>>

\* ext.ts 497-510: the status lines of the working tree
ScanStatus ==
    /\ pc = "scanStatus"
    /\ \E ok \in Outcomes(TRUE) :
          /\ cmdLog' = Append(cmdLog,
                 Issued("scan", "status --porcelain", <<>>, sEmpty, ok, ok))
          /\ IF ok
             THEN /\ modifiedFiles' = FilterByFolder(StatusFiles(GitStatusPorcelain), folderPath)
                  /\ pc' = "scanModified"
             ELSE /\ pc' = "merge"
                  /\ UNCHANGED modifiedFiles
    /\ UNCHANGED <<repo, inputVars, tierVars, currentBranch, resultVars, messages>>

\* ScanModified that keeps the listing alone
ScanModifiedReplaces ==
    /\ pc = "scanModified"
    /\ \E ok \in Outcomes(TRUE) :
          /\ cmdLog' = Append(cmdLog,
                 Issued("scan", "ls-files --modified", <<>>, pathForGitCommands, ok, ok))
          /\ modifiedFiles' =
                IF ok
                THEN Dedupe(
                        SelectSeq(SplitLines(GitLsFilesModified(pathForGitCommands)), NotBlank))
                ELSE modifiedFiles
    /\ pc' = "merge"
    /\ UNCHANGED <<repo, inputVars, tierVars, currentBranch, resultVars, messages>>

\* ScanModified that forgets the status files when the listing fails
ScanModifiedFailureClears ==
    /\ pc = "scanModified"
    /\ \E ok \in Outcomes(TRUE) :
          /\ cmdLog' = Append(cmdLog,
                 Issued("scan", "ls-files --modified", <<>>, pathForGitCommands, ok, ok))
          /\ modifiedFiles' =
                IF ok
                THEN Dedupe(modifiedFiles \o
                        SelectSeq(SplitLines(GitLsFilesModified(pathForGitCommands)), NotBlank))
                ELSE <<>>
    /\ pc' = "merge"
    /\ UNCHANGED <<repo, inputVars, tierVars, currentBranch, resultVars, messages>>

\* ext.ts 512-522, 526-529: the modified files, united with the status files
ScanModified ==
    /\ pc = "scanModified"
    /\ \E ok \in Outcomes(TRUE) :
          /\ cmdLog' = Append(cmdLog,
                 Issued("scan", "ls-files --modified", <<>>, pathForGitCommands, ok, ok))
          /\ modifiedFiles' =
                IF ok
                THEN Dedupe(modifiedFiles \o
                        SelectSeq(SplitLines(GitLsFilesModified(pathForGitCommands)), NotBlank))
                ELSE modifiedFiles
    /\ pc' = "merge"
    /\ UNCHANGED <<repo, inputVars, tierVars, currentBranch, resultVars, messages>>

\* MergeAndShow with a sort that leaves the entries in any order
MergeAndShowAnyOrder ==
    /\ pc = "merge"
    /\ changedFiles' = ChangedFiles(AllChangedFiles(committedFiles, modifiedFiles))
    /\ sortedFiles' \in {l \in [1..Len(changedFiles') -> Range(changedFiles')] :
                            Range(l) = Range(changedFiles')}
    /\ formattedFiles' = FormattedFiles(sortedFiles', modifiedFiles)
    /\ document' = [branch   |-> branchName,
                    total    |-> Len(changedFiles'),
                    modified |-> Len(modifiedFiles),
                    lines    |-> IF Len(changedFiles') > 0 THEN formattedFiles' ELSE <<>>]
    /\ delivered' = TRUE
    /\ messages' = IF Len(changedFiles') = 0
                   THEN Append(messages, Message("information", "No files have changed in branch"))
                   ELSE messages
    /\ pc' = "done"
    /\ UNCHANGED <<repo, inputVars, tierVars, scanVars, cmdLog>>

\* ext.ts 531-594: merge, sort, format and show the list
MergeAndShow ==
    /\ pc = "merge"
    /\ changedFiles' = ChangedFiles(AllChangedFiles(committedFiles, modifiedFiles))
    /\ sortedFiles' = SortFiles(changedFiles')
    /\ formattedFiles' = FormattedFiles(sortedFiles', modifiedFiles)
    /\ document' = [branch   |-> branchName,
                    total    |-> Len(changedFiles'),
                    modified |-> Len(modifiedFiles),
                    lines    |-> IF Len(changedFiles') > 0 THEN formattedFiles' ELSE <<>>]
    /\ delivered' = TRUE
    /\ messages' = IF Len(changedFiles') = 0
                   THEN Append(messages, Message("information", "No files have changed in branch"))
                   ELSE messages
    /\ pc' = "done"
    /\ UNCHANGED <<repo, inputVars, tierVars, scanVars, cmdLog>>

Next ==
    \/ CheckWorkspace
    \/ SelectDirectory
    \/ CheckRepository
    \/ ListBranches
    \/ SelectBranch
    \/ ResolveBase
    \/ PrimaryHistory
    \/ PrimaryMergeBase
    \/ PrimaryDiff
    \/ SecondaryRecent
    \/ SecondaryThreeDot
    \/ TertiaryStatus
    \/ ScanHead
    \/ ScanStatus
    \/ ScanModified
    \/ MergeAndShow

Spec == Init /\ [][Next]_vars

-----------------------------------------------------------------------------
(* Reading the command log *)

TierNames == {"primary", "secondary", "tertiary"}

TierRank(tier) ==
    CASE tier = "setup"     -> 0
      [] tier = "primary"   -> 1
      [] tier = "secondary" -> 2
      [] tier = "tertiary"  -> 3
      [] tier = "scan"      -> 4

\* the command at position i is the last one its tier issues when it succeeds
EndsTier(i) == cmdLog[i].tier \in TierNames /\ cmdLog[i].cmd # "merge-base"

HasIssued(tier, cmd) ==
    \E i \in 1..Len(cmdLog) : cmdLog[i].tier = tier /\ cmdLog[i].cmd = cmd

HasEnded(tier, cmd, ok) ==
    \E i \in 1..Len(cmdLog) :
        cmdLog[i].tier = tier /\ cmdLog[i].cmd = cmd /\ cmdLog[i].ok = ok

HasFailedIn(tier) ==
    \E i \in 1..Len(cmdLog) : cmdLog[i].tier = tier /\ ~cmdLog[i].ok

NoErrorShown == \A i \in 1..Len(messages) : messages[i].kind # "error"

AfterTiers == pc \in {"scanHead", "scanStatus", "scanModified", "merge", "done"}

-----------------------------------------------------------------------------
(* C1: the tiers run in the order primary, secondary, tertiary; a command  *)
(* of the secondary tier directly follows a failed command of the primary  *)
(* tier and a command of the tertiary tier directly follows a failed       *)
(* command of the secondary tier; after a tier's command has succeeded no  *)
(* further tier command is issued; and every scan command comes after the  *)
(* tiers have ended (the last tier command succeeded, or the tertiary tier *)
(* has run), with no tier command after a scan command.                    *)
C1_TierOrder ==
    \A i \in 1..Len(cmdLog) :
        /\ \A j \in 1..Len(cmdLog) :
              i < j => TierRank(cmdLog[i].tier) <= TierRank(cmdLog[j].tier)
        /\ cmdLog[i].tier = "secondary" =>
              i > 1 /\ cmdLog[i - 1].tier = "primary" /\ ~cmdLog[i - 1].ok
        /\ cmdLog[i].tier = "tertiary" =>
              i > 1 /\ cmdLog[i - 1].tier = "secondary" /\ ~cmdLog[i - 1].ok
        /\ (EndsTier(i) /\ cmdLog[i].ok) =>
              \A j \in 1..Len(cmdLog) : i < j => cmdLog[j].tier = "scan"
        /\ cmdLog[i].tier = "scan" =>
              \E k \in 1..(i - 1) :
                  /\ EndsTier(k)
                  /\ cmdLog[k].ok \/ cmdLog[k].tier = "tertiary"
                  /\ \A j \in (k + 1)..(i - 1) : cmdLog[j].tier = "scan"

\* all three tiers have run, the tertiary one succeeded, and the scan ran
C1_Witness ==
    /\ HasFailedIn("primary")
    /\ HasFailedIn("secondary")
    /\ HasEnded("tertiary", "status --porcelain", TRUE)
    /\ HasEnded("scan", "ls-files --modified", TRUE)

-----------------------------------------------------------------------------
(* C2: when the commands of all three tiers have failed, the committed     *)
(* file set is empty, no error message is shown, the handler goes on to    *)
(* the scan and the merge, and once it has finished the list has been      *)
(* shown.                                                                  *)
AllTiersFailed == HasEnded("tertiary", "status --porcelain", FALSE)

C2_AllTiersFailDegrades ==
    AllTiersFailed =>
        /\ committedFiles = <<>>
        /\ NoErrorShown
        /\ AfterTiers
        /\ pc = "done" => delivered

\* a finished invocation, all tiers failed, with a path filter, for a
\* branch that differs from the base
C2_Witness ==
    /\ AllTiersFailed
    /\ pc = "done"
    /\ delivered
    /\ folderPath = sSrc
    /\ ~IsSameBranch(branchName, baseRef)

-----------------------------------------------------------------------------
(* The terms of the claims about branches and file sets *)

\* a label of the form remotes/<remote>/<name> names a remote-tracking branch
IsRemoteTracking(label) == StartsWith(label, sRemotes)

\* the branch name with the remote-tracking prefix remotes/<remote>/ removed
StripRemoteTracking(label) ==
    IF IsRemoteTracking(label)
    THEN LET rest == Substring(label, Len(sRemotes))
         IN  Substring(rest, PosIn(rest, "/"))
    ELSE label

\* the base has been resolved and the branch name prepared (ext.ts 314-342)
BranchChosen == branchName # sEmpty

\* the files of a list: its entries that are not blank
Files(list) == {f \in Range(list) : NotBlank(f)}

\* the files of a list that lie under the selected folder
FilesUnder(list, dir) == {f \in Files(list) : PathspecMatch(f, FolderPathOf(dir))}

NoDuplicates(list) ==
    \A i, j \in 1..Len(list) : list[i] = list[j] => i = j

-----------------------------------------------------------------------------
(* C3: for a selected branch whose name, the remote-tracking prefix        *)
(* removed, differs from the base, the history scan is never issued, and   *)
(* once the merge-base and the diff command have succeeded the committed   *)
(* files are the files that differ between the merge base and the branch,  *)
(* under the selected folder.                                              *)
C3_DifferingBranchUsesMergeBaseDiff ==
    (BranchChosen /\ StripRemoteTracking(selectedBranch) # baseRef) =>
        /\ ~HasIssued("primary", "log | sort | uniq")
        /\ (HasEnded("primary", "merge-base", TRUE) /\ HasEnded("primary", "diff", TRUE)) =>
              Files(committedFiles) = FilesUnder(repo.files.diff, selectedDirectory)

-----------------------------------------------------------------------------
(* C4: when the merge-base command has failed and the three-dot diff of    *)
(* base and branch has succeeded, committedFiles is the output of that     *)
(* diff (issued for base...branch and the path filter), split into lines;  *)
(* the status command of the tertiary tier is not issued, no error message *)
(* is shown and the finished invocation has shown the list.                *)
C4_ThreeDotFallback ==
    (HasEnded("primary", "merge-base", FALSE) /\ HasEnded("secondary", "diff ...", TRUE)) =>
        /\ committedFiles = SplitLines(GitDiffNameOnly(FolderPathOf(selectedDirectory)))
        /\ Files(committedFiles) = FilesUnder(repo.files.diff, selectedDirectory)
        /\ \A i \in 1..Len(cmdLog) :
              cmdLog[i].cmd = "diff ..." =>
                  /\ cmdLog[i].refs = <<baseRef, branchName>>
                  /\ cmdLog[i].path = FolderPathOf(selectedDirectory)
        /\ ~HasIssued("tertiary", "status --porcelain")
        /\ NoErrorShown
        /\ AfterTiers
        /\ pc = "done" => delivered

\* the fallback produced files under a path filter and the list was shown
C4_Witness ==
    /\ HasEnded("primary", "merge-base", FALSE)
    /\ HasEnded("secondary", "diff ...", TRUE)
    /\ folderPath = sSrc
    /\ Files(committedFiles) = {pSrcA}
    /\ pc = "done"
    /\ delivered

-----------------------------------------------------------------------------
(* C5: for a selected branch that, the remote-tracking prefix removed, is  *)
(* the base, no diff or merge-base command is ever issued; and when the    *)
(* git log of the history scan has succeeded, the committed files are the  *)
(* files of the commits reachable from the branch under the selected       *)
(* folder, each listed once.                                               *)
DiffIssued ==
    \E i \in 1..Len(cmdLog) : cmdLog[i].cmd \in {"merge-base", "diff", "diff ..."}

HistoryScanned ==
    \E i \in 1..Len(cmdLog) : cmdLog[i].cmd = "log | sort | uniq" /\ cmdLog[i].git

HistoryFailedSilently ==
    \E i \in 1..Len(cmdLog) :
        cmdLog[i].cmd = "log | sort | uniq" /\ cmdLog[i].ok /\ ~cmdLog[i].git

-----------------------------------------------------------------------------
(* C6: once the checked-out branch has been read and the scan is over, the *)
(* status command of the scan has been issued if and only if the           *)
(* checked-out branch and the selected branch have the same name           *)
(* (remote-tracking prefix removed) and the selected branch is not a       *)
(* remote-tracking branch; otherwise the modified set is empty and no      *)
(* error message is shown.                                                 *)
ScanDecided ==
    HasEnded("scan", "rev-parse --abbrev-ref HEAD", TRUE) /\ pc \in {"merge", "done"}

ScanRan == HasIssued("scan", "status --porcelain")

OnSelectedBranch == StripRemoteTracking(repo.head) = StripRemoteTracking(selectedBranch)

C6_ScanIffCheckedOutLocalBranch ==
    ScanDecided =>
        /\ ScanRan <=> (OnSelectedBranch /\ ~IsRemoteTracking(selectedBranch))
        /\ ~(OnSelectedBranch /\ ~IsRemoteTracking(selectedBranch)) =>
              modifiedFiles = <<>> /\ NoErrorShown

-----------------------------------------------------------------------------
(* C7: when the selected branch is a remote-tracking branch, no status and *)
(* no modified-files command of the scan is issued, the modified set is    *)
(* empty, the modified count shown is 0 and no entry of the list carries   *)
(* the asterisk, whatever is checked out and whatever the working tree     *)
(* holds.                                                                  *)
IsMarked(entry) == StartsWith(entry, <<"*", SP>>)

C7_RemoteBranchNeverScanned ==
    IsRemoteTracking(selectedBranch) =>
        /\ ~ScanRan
        /\ ~HasIssued("scan", "ls-files --modified")
        /\ modifiedFiles = <<>>
        /\ document.modified = 0
        /\ \A i \in 1..Len(formattedFiles) : ~IsMarked(formattedFiles[i])

\* remotes/origin/feature/x is selected while feature/x is checked out, and
\* a committed file of the list is modified in the working tree
C7_Witness ==
    /\ selectedBranch = sRemotesOriginFeatureX
    /\ repo.head = sFeatureX
    /\ pc = "done"
    /\ delivered
    /\ IsIn(sortedFiles, pSrcA)
    /\ IsIn(repo.worktree.modified, pSrcA)

-----------------------------------------------------------------------------
(* C8: in a finished invocation in which the selected branch is the        *)
(* checked-out branch and no command of the scan has failed, every file    *)
(* that is in the committed set and is modified in the working tree has    *)
(* exactly one entry in the list, and that entry carries the asterisk.     *)
WorktreeModified ==
    Range(StatusFiles(GitStatusPorcelain)) \cup Range(repo.worktree.modified)

C8_CommittedAndModifiedMarkedOnce ==
    (/\ pc = "done"
     /\ delivered
     /\ repo.head = selectedBranch
     /\ ~HasFailedIn("scan")) =>
        \A f \in Files(committedFiles) \cap WorktreeModified :
            /\ Cardinality({i \in 1..Len(sortedFiles) : sortedFiles[i] = f}) = 1
            /\ \A i \in 1..Len(sortedFiles) :
                  sortedFiles[i] = f => formattedFiles[i] = <<"*", SP>> \o f

-----------------------------------------------------------------------------
(* C9: the list that is shown holds no path twice and no blank entry, and  *)
(* has one formatted entry for each of its paths.                          *)
C9_ListUniqueAndNotBlank ==
    delivered =>
        /\ NoDuplicates(sortedFiles)
        /\ \A i \in 1..Len(sortedFiles) : NotBlank(sortedFiles[i])
        /\ Range(sortedFiles) = Files(committedFiles) \cup Files(modifiedFiles)
        /\ Len(formattedFiles) = Len(sortedFiles)
        /\ \A i \in 1..Len(formattedFiles) : Substring(formattedFiles[i], 2) = sortedFiles[i]

\* the secondary tier printed a file twice and a blank line, and the scan
\* found a committed file modified
C9_Witness ==
    /\ delivered
    /\ HasEnded("secondary", "log -n 20", TRUE)
    /\ ~NoDuplicates(committedFiles)
    /\ \E i \in 1..Len(committedFiles) : ~NotBlank(committedFiles[i])
    /\ Files(committedFiles) \cap Files(modifiedFiles) # {}
    /\ Len(sortedFiles) >= 2

-----------------------------------------------------------------------------
(* The sort of the result merger on its own: every list of up to MaxPaths  *)
(* distinct paths is sorted as ext.ts 537-548 sorts changedFiles.          *)

MaxPaths == 3

pUpperA == <<"A",".","t","s">>
pRootB == <<"b",".","t","s">>
pDocs == <<"d","o","c","s","/">>

SortPaths == {pSrcA, pSrcB, pRootA, pUpperA, pRootB, pMake, pDocs, sSrc}

InitSort ==
    /\ pc = "sortInput"
    /\ changedFiles \in
          {l \in UNION {[1..n -> SortPaths] : n \in 0..MaxPaths} : NoDuplicates(l)}
    /\ repo = NoRepository
    /\ selectedDirectory = [path |-> sDot, isExternal |-> FALSE]
    /\ hasGitRepo = FALSE
    /\ branchItems = <<>>
    /\ selectedBranch = sEmpty
    /\ baseRef = sMain
    /\ branchName = sEmpty
    /\ folderPath = sEmpty
    /\ pathForGitCommands = sEmpty
    /\ mergeBase = sEmpty
    /\ committedFiles = <<>>
    /\ currentBranch = sEmpty
    /\ modifiedFiles = <<>>
    /\ sortedFiles = <<>>
    /\ formattedFiles = <<>>
    /\ document = NoDocument
    /\ delivered = FALSE
    /\ messages = <<>>
    /\ cmdLog = <<>>

\* ext.ts 537-548
SortChangedFiles ==
    /\ pc = "sortInput"
    /\ sortedFiles' = SortFiles(changedFiles)
    /\ pc' = "sorted"
    /\ UNCHANGED <<repo, inputVars, tierVars, scanVars, changedFiles, formattedFiles,
                   document, delivered, messages, cmdLog>>

SortSpec == InitSort /\ [][SortChangedFiles]_vars

-----------------------------------------------------------------------------
(* C10: the sorted list holds the paths of the input; every entry that     *)
(* ends with '/' or contains no '.' precedes every other entry; and within *)
(* each of the two classes the entries are in lexicographic order of their *)
(* lower-case forms.                                                       *)
DirectoryLike(p) == p[Len(p)] = "/" \/ \A i \in 1..Len(p) : p[i] # "."

ToLower(p) ==
    [i \in 1..Len(p) |-> IF IsUpper(p[i]) THEN Lowers[PosIn(Uppers, p[i])] ELSE p[i]]

CaseInsensitiveLeq(a, b) == ByteCompare(ToLower(a), ToLower(b)) <= 0

C10_DirectoriesFirstThenAlphabetical ==
    pc = "sorted" =>
        /\ Len(sortedFiles) = Len(changedFiles)
        /\ Range(sortedFiles) = Range(changedFiles)
        /\ \A i, j \in 1..Len(sortedFiles) :
              i < j =>
                 /\ DirectoryLike(sortedFiles[j]) => DirectoryLike(sortedFiles[i])
                 /\ (DirectoryLike(sortedFiles[i]) <=> DirectoryLike(sortedFiles[j])) =>
                       CaseInsensitiveLeq(sortedFiles[i], sortedFiles[j])

\* a list that the sort reorders: a file before a directory-like entry, and
\* an upper-case name between lower-case ones
C10_Witness ==
    /\ pc = "sorted"
    /\ changedFiles = <<pSrcB, pMake, pRootB>>
    /\ sortedFiles = <<pMake, pRootB, pSrcB>>

-----------------------------------------------------------------------------
(* C11: the comparator of the sort is a total order on paths: of any two   *)
(* paths one is ordered before or with the other, two paths that are       *)
(* ordered both ways are the same text, the relation is transitive, and    *)
(* the comparator returns 0 only for textually identical paths, so two     *)
(* paths that differ only in letter case never compare equal.              *)
OrderedBeforeOrWith(a, b) == CompareFiles(a, b) <= 0

C11_ComparatorIsTotalOrder ==
    pc = "sorted" =>
        \A a, b, c \in Range(changedFiles) :
            /\ OrderedBeforeOrWith(a, b) \/ OrderedBeforeOrWith(b, a)
            /\ OrderedBeforeOrWith(a, b) /\ OrderedBeforeOrWith(b, a) => a = b
            /\ OrderedBeforeOrWith(a, b) /\ OrderedBeforeOrWith(b, c) =>
                  OrderedBeforeOrWith(a, c)
            /\ CompareFiles(a, b) = 0 => a = b

-----------------------------------------------------------------------------
(* C12: in the list that is shown an entry carries the asterisk if and     *)
(* only if its path is in the modified set that the scan of the working    *)
(* tree returned; a path that only the committed-file tiers produced has   *)
(* an entry without the asterisk.                                          *)
MarkedPaths ==
    {Substring(formattedFiles[i], 2) : i \in {j \in 1..Len(formattedFiles) : IsMarked(formattedFiles[j])}}

UnmarkedPaths ==
    {Substring(formattedFiles[i], 2) : i \in {j \in 1..Len(formattedFiles) : ~IsMarked(formattedFiles[j])}}

C12_MarkedIffInModifiedSet ==
    delivered =>
        /\ MarkedPaths = Files(modifiedFiles)
        /\ UnmarkedPaths = Files(committedFiles) \ Files(modifiedFiles)
        /\ ~ScanRan => MarkedPaths = {}

\* the list holds a path that the tiers and the scan both produced, a path
\* of the scan alone and a path of the tiers alone
C12_Witness ==
    /\ delivered
    /\ Files(committedFiles) \cap Files(modifiedFiles) # {}
    /\ Files(modifiedFiles) \ Files(committedFiles) # {}
    /\ UnmarkedPaths # {}
    /\ MarkedPaths # {}

-----------------------------------------------------------------------------
(* C13: the file count of the delivered result is at most the number of    *)
(* lines the tiers handed on as committed files plus the number of         *)
(* modified files, and it equals that sum only when no path is both in the *)
(* committed list and in the modified list.                                *)
C13_CountAtMostSum ==
    delivered =>
        /\ document.total <= Len(committedFiles) + Len(modifiedFiles)
        /\ document.total = Len(committedFiles) + Len(modifiedFiles) =>
              Range(committedFiles) \cap Range(modifiedFiles) = {}

\* the count equals the sum: the history scan and the scan of the working
\* tree produced files, none of them in common
C13_Witness ==
    /\ delivered
    /\ committedFiles # <<>>
    /\ modifiedFiles # <<>>
    /\ document.total = Len(committedFiles) + Len(modifiedFiles)

-----------------------------------------------------------------------------
(* The normalization of branch names on its own: the selected label is any *)
(* text of up to MaxSegments segments, cleaned as ext.ts 327-330 cleans    *)
(* it and then compared with the checked-out branch as ext.ts 486-491      *)
(* compares them.                                                          *)

MaxSegments == 4

sOrigin == <<"o","r","i","g","i","n","/">>
sX == <<"x">>

BranchSegments == {sRemotes, sOrigin, sRefsHeads, sRefsRemotes, sMain, sX}

RECURSIVE Concat(_)
Concat(segments) ==
    IF segments = <<>> THEN <<>> ELSE Head(segments) \o Concat(Tail(segments))

BranchStrings ==
    {Concat(l) : l \in UNION {[1..n -> BranchSegments] : n \in 0..MaxSegments}}

InitNormalize ==
    /\ pc = "normalizeInput"
    /\ selectedBranch \in BranchStrings
    /\ currentBranch \in {sMain, sX, sRefsHeads \o sX}
    /\ repo = NoRepository
    /\ selectedDirectory = [path |-> sDot, isExternal |-> FALSE]
    /\ hasGitRepo = FALSE
    /\ branchItems = <<>>
    /\ baseRef = sMain
    /\ branchName = sEmpty
    /\ folderPath = sEmpty
    /\ pathForGitCommands = sEmpty
    /\ mergeBase = sEmpty
    /\ committedFiles = <<>>
    /\ modifiedFiles = <<>>
    /\ changedFiles = <<>>
    /\ sortedFiles = <<>>
    /\ formattedFiles = <<>>
    /\ document = NoDocument
    /\ delivered = FALSE
    /\ messages = <<>>
    /\ cmdLog = <<>>

\* ext.ts 325-330
CleanSelectedBranch ==
    /\ pc = "normalizeInput"
    /\ branchName' = CleanBranchName(selectedBranch)
    /\ pc' = "cleaned"
    /\ UNCHANGED <<repo, selectedDirectory, hasGitRepo, branchItems, selectedBranch,
                   baseRef, folderPath, pathForGitCommands, tierVars, scanVars,
                   resultVars, messages, cmdLog>>

\* ext.ts 486-491
CompareWithCurrentBranch ==
    /\ pc = "cleaned"
    /\ pc' = IF IsOnSelectedBranch(currentBranch, branchName)
             THEN "onSelectedBranch" ELSE "notOnSelectedBranch"
    /\ UNCHANGED <<repo, inputVars, tierVars, scanVars, resultVars, messages, cmdLog>>

NormalizeSpec ==
    InitNormalize /\ [][CleanSelectedBranch \/ CompareWithCurrentBranch]_vars

-----------------------------------------------------------------------------
(* C14: the normalization of a branch name is idempotent: for every branch *)
(* name, removing the remote-tracking prefix from the cleaned name again   *)
(* leaves it unchanged, and so does normalizing the normalized name of the *)
(* comparison with the checked-out branch.                                 *)
C14_NormalizationIdempotent ==
    pc # "normalizeInput" =>
        /\ CleanBranchName(branchName) = branchName
        /\ NormalizeRef(NormalizeRef(branchName)) = NormalizeRef(branchName)
        /\ NormalizeRef(NormalizeRef(currentBranch)) = NormalizeRef(currentBranch)

-----------------------------------------------------------------------------
(* C15: a command of the tiers is issued only after the check that the     *)
(* location is a working tree has succeeded; when that check has failed,   *)
(* no command of the tiers is ever issued and the invocation ends with an  *)
(* error message shown, for a folder of the workspace as for an external   *)
(* folder.                                                                 *)
WorkTreeVerified == HasEnded("setup", "rev-parse --is-inside-work-tree", TRUE)

WorkTreeCheckFailed == HasEnded("setup", "rev-parse --is-inside-work-tree", FALSE)

TierCommandIssued == \E i \in 1..Len(cmdLog) : cmdLog[i].tier \in TierNames

C15_WorkTreeVerifiedBeforeTiers ==
    /\ TierCommandIssued => WorkTreeVerified
    /\ WorkTreeCheckFailed =>
          /\ ~TierCommandIssued
          /\ pc = "done" => ~NoErrorShown

-----------------------------------------------------------------------------
(* C16: every step of the handler brings the invocation closer to its end  *)
(* (no step is taken twice), and an invocation that has ended has either   *)
(* delivered the result (together with the information message that no     *)
(* files have changed when the list is empty, and with no other message),  *)
(* or shown exactly one error message and delivered nothing, or was        *)
(* cancelled by the user at the folder pick or at the branch pick, and     *)
(* then nothing is delivered and no message is shown.                      *)
FolderPickCancelled ==
    /\ pc = "done"
    /\ HasIssued("setup", "ls-files")
    /\ ~HasIssued("setup", "rev-parse --is-inside-work-tree")

BranchPickCancelled ==
    /\ pc = "done"
    /\ HasEnded("setup", "branch --all", TRUE)
    /\ selectedBranch = sEmpty

\* the steps of the handler still ahead, at most
StepsLeft ==
    CASE pc = "start"           -> 14
      [] pc = "selectDirectory" -> 13
      [] pc = "checkRepository" -> 12
      [] pc = "listBranches"    -> 11
      [] pc = "selectBranch"    -> 10
      [] pc = "resolveBase"     -> 9
      [] pc = "primary"         -> 8
      [] pc = "primaryDiff"     -> 7
      [] pc = "secondary"       -> 6
      [] pc = "tertiary"        -> 5
      [] pc = "scanHead"        -> 4
      [] pc = "scanStatus"      -> 3
      [] pc = "scanModified"    -> 2
      [] pc = "merge"           -> 1
      [] pc = "done"            -> 0

C16_EndsWithResponseUnlessCancelled ==
    /\ [][StepsLeft' < StepsLeft]_vars
    /\ [](pc = "done" =>
          \/ /\ delivered
             /\ messages = IF document.total = 0
                           THEN <<Message("information", "No files have changed in branch")>>
                           ELSE <<>>
          \/ /\ ~delivered
             /\ Len(messages) = 1
             /\ messages[1].kind = "error"
             /\ ~FolderPickCancelled
             /\ ~BranchPickCancelled
          \/ /\ ~delivered
             /\ messages = <<>>
             /\ FolderPickCancelled \/ BranchPickCancelled)

\* the user closed the branch pick without choosing a branch
C16_Witness == BranchPickCancelled /\ branchItems # <<>>

\* C16 as stated: an invocation that has ended has either delivered the
\* result and shown no message, or delivered nothing and shown one message
C16_ExactlyOneResponse ==
    pc = "done" =>
        \/ delivered /\ messages = <<>>
        \/ ~delivered /\ Len(messages) = 1

-----------------------------------------------------------------------------
(* C17: the delivered result tells which strategy produced the committed   *)
(* list; in particular, when the merge-base command has failed and the     *)
(* three-dot comparison of the secondary tier has produced the list, the   *)
(* delivered document is not the document that is delivered when the       *)
(* primary tier produces the list from the same repository: it carries a   *)
(* note that a fallback was used.                                          *)

\* ext.ts 531-581: the document shown for a committed and a modified list
ResultDocument(name, committed, modified) ==
    LET changed == ChangedFiles(AllChangedFiles(committed, modified))
    IN  [branch   |-> name,
         total    |-> Len(changed),
         modified |-> Len(modified),
         lines    |-> IF Len(changed) > 0
                      THEN FormattedFiles(SortFiles(changed), modified)
                      ELSE <<>>]

\* what the primary tier hands on when merge-base and diff succeed
PrimaryDiffOutput == SplitLines(GitDiffNameOnly(pathForGitCommands))

FallbackProducedList ==
    /\ delivered
    /\ HasEnded("primary", "merge-base", FALSE)
    /\ HasEnded("secondary", "diff ...", TRUE)

C17_ResultNotesFallback ==
    FallbackProducedList =>
        document # ResultDocument(branchName, PrimaryDiffOutput, modifiedFiles)

-----------------------------------------------------------------------------
(* C18: once the base is chosen it is 'main' if the verification of        *)
(* refs/heads/main has succeeded and 'master' if it has failed; the        *)
(* verification is issued once, for refs/heads/main only, and no command   *)
(* verifies 'master'; the base does not change afterwards; and after the   *)
(* base is chosen no error message is shown, also when the base does not   *)
(* exist: the invocation ends with the result delivered.                   *)
BaseVerifications ==
    {i \in 1..Len(cmdLog) : cmdLog[i].cmd = "show-ref --verify"}

BaseChosen == BaseVerifications # {}

C18_BaseMainOrMasterChosenOnce ==
    /\ [](BaseChosen =>
             /\ Cardinality(BaseVerifications) = 1
             /\ \A i \in BaseVerifications :
                   /\ cmdLog[i].refs = <<sRefsHeads \o sMain>>
                   /\ baseRef = IF cmdLog[i].ok THEN sMain ELSE sMaster
             /\ NoErrorShown
             /\ pc = "done" => delivered)
    /\ [][BaseChosen => baseRef' = baseRef]_vars

\* neither main nor master exists: the base is 'master', the tiers that
\* name it have failed and the result is delivered all the same
C18_Witness ==
    /\ pc = "done"
    /\ delivered
    /\ baseRef = sMaster
    /\ ~Resolves(baseRef)
    /\ HasFailedIn("primary")
    /\ HasFailedIn("secondary")

-----------------------------------------------------------------------------
(* C19: the result of a resolution is determined by its inputs (the        *)
(* repository, the selected folder and the selected branch) and by the     *)
(* outcomes of its commands: in every finished invocation the entries,     *)
(* their order, their marks and the counts are the values of one function  *)
(* of the inputs and of the logged outcomes, so two invocations with the   *)
(* same inputs and the same outcomes deliver the same result.              *)
Succeeded(log, tier, cmd) ==
    \E i \in 1..Len(log) : log[i].tier = tier /\ log[i].cmd = cmd /\ log[i].ok

GitSucceeded(log, tier, cmd) ==
    \E i \in 1..Len(log) : log[i].tier = tier /\ log[i].cmd = cmd /\ log[i].git

\* the committed list as a function of the folder and of the outcomes
CommittedOf(dir, log) ==
    LET path == FolderPathOf(dir)
    IN  IF Succeeded(log, "primary", "log | sort | uniq")
        THEN SelectSeq(SplitLines(SortUniq(
                 IF GitSucceeded(log, "primary", "log | sort | uniq")
                 THEN GitLogNameOnly(path) ELSE sEmpty)), NotBlank)
        ELSE IF Succeeded(log, "primary", "diff") \/ Succeeded(log, "secondary", "diff ...")
        THEN SplitLines(GitDiffNameOnly(path))
        ELSE IF Succeeded(log, "secondary", "log -n 20")
        THEN SplitLines(GitLogRecent(path))
        ELSE IF Succeeded(log, "tertiary", "status --porcelain")
        THEN FilterByFolder(StatusFiles(GitStatusPorcelain), path)
        ELSE <<>>

\* the modified list as a function of the folder and of the outcomes
ModifiedOf(dir, log) ==
    LET path   == FolderPathOf(dir)
        status == FilterByFolder(StatusFiles(GitStatusPorcelain), path)
        listed == SelectSeq(SplitLines(GitLsFilesModified(path)), NotBlank)
    IN  IF ~Succeeded(log, "scan", "status --porcelain") THEN <<>>
        ELSE IF Succeeded(log, "scan", "ls-files --modified") THEN Dedupe(status \o listed)
        ELSE status

\* the result as a function of the inputs and of the outcomes
ResolutionOf(dir, branch, log) ==
    LET modified == ModifiedOf(dir, log)
        changed  == ChangedFiles(AllChangedFiles(CommittedOf(dir, log), modified))
    IN  [entries   |-> SortFiles(changed),
         formatted |-> FormattedFiles(SortFiles(changed), modified),
         document  |-> ResultDocument(CleanBranchName(branch), CommittedOf(dir, log), modified)]

C19_ResultDeterminedByInputsAndOutcomes ==
    (pc = "done" /\ delivered) =>
        LET result == ResolutionOf(selectedDirectory, selectedBranch, cmdLog)
        IN  /\ sortedFiles = result.entries
            /\ formattedFiles = result.formatted
            /\ document = result.document

\* a result with marked and unmarked entries, delivered after a failed
\* command of the primary tier and a failed command of the scan
C19_Witness ==
    /\ pc = "done"
    /\ delivered
    /\ HasFailedIn("primary")
    /\ HasFailedIn("scan")
    /\ Len(sortedFiles) >= 3
    /\ MarkedPaths # {}
    /\ UnmarkedPaths # {}

-----------------------------------------------------------------------------
(* C20: the committed list that the history scan hands on holds no blank   *)
(* line and no path twice, and the one the status tier hands on holds no   *)
(* blank line; the diff tiers and the recent-history tier hand on the      *)
(* lines of their output as they are; in every case the list that is shown *)
(* holds the files of the committed list with no blank entry and no path   *)
(* twice.                                                                  *)
NoBlanks(list) == \A i \in 1..Len(list) : NotBlank(list[i])

TierSucceeded == \E i \in 1..Len(cmdLog) : EndsTier(i) /\ cmdLog[i].ok

C20_CleanedAtMergeAtLatest ==
    /\ (AfterTiers /\ Succeeded(cmdLog, "primary", "log | sort | uniq")) =>
          NoBlanks(committedFiles) /\ NoDuplicates(committedFiles)
    /\ (AfterTiers /\ Succeeded(cmdLog, "tertiary", "status --porcelain")) =>
          NoBlanks(committedFiles)
    /\ (AfterTiers /\ (Succeeded(cmdLog, "primary", "diff")
                          \/ Succeeded(cmdLog, "secondary", "diff ..."))) =>
          committedFiles = SplitLines(GitDiffNameOnly(pathForGitCommands))
    /\ (AfterTiers /\ Succeeded(cmdLog, "secondary", "log -n 20")) =>
          committedFiles = SplitLines(GitLogRecent(pathForGitCommands))
    /\ (delivered /\ TierSucceeded) =>
          /\ NoBlanks(changedFiles) /\ NoDuplicates(changedFiles)
          /\ Files(committedFiles) \subseteq Range(changedFiles)

\* the merge-base diff handed on a list that ends in a blank line, and the
\* list that is shown has its files and no blank entry
C20_Witness ==
    /\ delivered
    /\ Succeeded(cmdLog, "primary", "diff")
    /\ ~NoBlanks(committedFiles)
    /\ Files(committedFiles) # {}
    /\ NoBlanks(changedFiles)

\* C20 as stated: whichever tier has succeeded, the committed list it has
\* handed on holds no blank line and no path twice
C20_TierOutputCleaned ==
    (AfterTiers /\ TierSucceeded) =>
        NoBlanks(committedFiles) /\ NoDuplicates(committedFiles)

-----------------------------------------------------------------------------
(* C21: in the same-branch case, whenever git log of the history scan has  *)
(* failed, the tiers are over only after the recent-history command of the *)
(* secondary tier has been issued, and when that command has succeeded the *)
(* committed list is the lines of the last 20 commits of HEAD for the path *)
(* filter: a failed history scan never counts as a successful scan that    *)
(* found no files.                                                         *)
HistoryScanFailed ==
    \E i \in 1..Len(cmdLog) :
        cmdLog[i].tier = "primary" /\ cmdLog[i].cmd = "log | sort | uniq" /\ ~cmdLog[i].git

C21_HistoryFailureFallsThrough ==
    (AfterTiers /\ HistoryScanFailed) =>
        /\ HasIssued("secondary", "log -n 20")
        /\ ~Succeeded(cmdLog, "primary", "log | sort | uniq")
        /\ Succeeded(cmdLog, "secondary", "log -n 20") =>
              committedFiles = SplitLines(GitLogRecent(pathForGitCommands))

-----------------------------------------------------------------------------
(* C22: when the status command of the tertiary tier has produced the      *)
(* committed list and a path filter is given, every path of the list has   *)
(* the path filter as a prefix and lies inside the filtered subtree (it is *)
(* the folder itself or a path below it); with an empty path filter, which *)
(* an external repository always has, the list holds every path of the     *)
(* status lines.                                                           *)
InsideSubtree(path, dir) == path = dir \/ StartsWith(path, dir \o sSlash)

StatusTierProducedList == AfterTiers /\ Succeeded(cmdLog, "tertiary", "status --porcelain")

C22_StatusTierWithinPathFilter ==
    StatusTierProducedList =>
        /\ selectedDirectory.isExternal => folderPath = sEmpty
        /\ folderPath # sEmpty =>
              \A f \in Range(committedFiles) :
                  StartsWith(f, folderPath) /\ InsideSubtree(f, folderPath)
        /\ folderPath = sEmpty => committedFiles = StatusFiles(GitStatusPorcelain)

-----------------------------------------------------------------------------
(* C23: when the scan has run and both its status command and its          *)
(* modified-files command have succeeded, the modified list holds, each    *)
(* once, exactly the paths of the status lines that have the path filter   *)
(* as a prefix and the paths that the modified-files listing prints for    *)
(* the path filter; and in every state each path of the modified list      *)
(* comes from one of these two sources.                                    *)
StatusSource ==
    {f \in Range(StatusFiles(GitStatusPorcelain)) : StartsWith(f, folderPath)}

ListingSource ==
    Files(SplitLines(GitLsFilesModified(pathForGitCommands)))

ScanSucceeded ==
    /\ pc \in {"merge", "done"}
    /\ Succeeded(cmdLog, "scan", "status --porcelain")
    /\ Succeeded(cmdLog, "scan", "ls-files --modified")

C23_ModifiedIsUnionOfTwoSources ==
    /\ Range(modifiedFiles) \subseteq StatusSource \cup ListingSource
    /\ ScanSucceeded =>
          /\ Range(modifiedFiles) = StatusSource \cup ListingSource
          /\ NoDuplicates(modifiedFiles)

\* a path filter is given: a status line outside it is left out, a path
\* is in both sources, and a status path that the listing does not print
\* is in the list
C23_Witness ==
    /\ ScanSucceeded
    /\ folderPath # sEmpty
    /\ StatusSource \cap ListingSource # {}
    /\ Range(StatusFiles(GitStatusPorcelain)) \ StatusSource # {}
    /\ StatusSource \ ListingSource # {}
    /\ ListingSource # {}

-----------------------------------------------------------------------------
(* C24: when the listing of the branches has failed, the error message     *)
(* 'Failed to get Git branches' is the one message shown, the invocation   *)
(* has ended without a result, and the listing is the last command issued: *)
(* no verification of the base, no command of the tiers and no command of  *)
(* the scan follows it.                                                    *)
BranchListingFailed == HasEnded("setup", "branch --all", FALSE)

C24_BranchListingFailureEndsInvocation ==
    BranchListingFailed =>
        /\ pc = "done"
        /\ ~delivered
        /\ messages = <<Message("error", "Failed to get Git branches")>>
        /\ cmdLog[Len(cmdLog)].cmd = "branch --all"
        /\ ~BaseChosen
        /\ ~TierCommandIssued
        /\ ~HasFailedIn("scan") /\ ~ScanRan
        /\ branchItems = <<>> /\ selectedBranch = sEmpty

\* the listing fails in a repository that has branches
C24_Witness ==
    /\ BranchListingFailed
    /\ repo.isRepo
    /\ repo.locals # <<>>
    /\ WorkTreeVerified

-----------------------------------------------------------------------------
(* C25: when a command of the scan (the query of the checked-out branch,   *)
(* the status command or the modified-files listing) has failed, the scan  *)
(* is over, no error message is shown and the committed list is still the  *)
(* one the tiers produced; the invocation ends with the result delivered,  *)
(* every committed file in it; and the modified list is empty when the     *)
(* query or the status command failed, and is the list of the status paths *)
(* under the path filter when the listing failed.                          *)
ScanFailedAt(cmd) == HasEnded("scan", cmd, FALSE)

C25_ScanFailureKeepsCommitted ==
    HasFailedIn("scan") =>
        /\ pc \in {"merge", "done"}
        /\ NoErrorShown
        /\ committedFiles = CommittedOf(selectedDirectory, cmdLog)
        /\ pc = "done" =>
              /\ delivered
              /\ Files(committedFiles) \subseteq Range(sortedFiles)
              /\ document.total = Len(sortedFiles)
        /\ (ScanFailedAt("rev-parse --abbrev-ref HEAD") \/ ScanFailedAt("status --porcelain")) =>
              modifiedFiles = <<>>
        /\ ScanFailedAt("ls-files --modified") =>
              modifiedFiles = FilterByFolder(StatusFiles(GitStatusPorcelain), folderPath)

\* the listing fails after the status command has found modified files,
\* and the result holds the committed files and those modified files
C25_Witness ==
    /\ pc = "done"
    /\ delivered
    /\ ScanFailedAt("ls-files --modified")
    /\ modifiedFiles # <<>>
    /\ Files(committedFiles) # {}
    /\ Files(modifiedFiles) \ Files(committedFiles) # {}

-----------------------------------------------------------------------------
(* C26: in every delivered result the modified count that is reported is   *)
(* the number of entries of the list that carry the asterisk, and it is at *)
(* most the total that is reported, whatever the tiers and the scan did,   *)
(* a scan that failed after its status command included.                   *)
MarkedEntries == {i \in 1..Len(formattedFiles) : IsMarked(formattedFiles[i])}

C26_ModifiedCountIsMarkedCount ==
    delivered =>
        /\ document.modified = Cardinality(MarkedEntries)
        /\ document.modified <= document.total
        /\ document.total = Len(formattedFiles)

\* the listing of the scan failed after the status command, and the list
\* has marked and unmarked entries
C26_Witness ==
    /\ delivered
    /\ ScanFailedAt("ls-files --modified")
    /\ document.modified >= 2
    /\ document.modified < document.total

=============================================================================
